---- MODULE Spec2Model ----
(***************************************************************************)
(* A model of src/models.py: the helper functions, Trainer (construction,  *)
(* train loop, save / load), DIPTrainer (train loop, save / load),         *)
(* generate_noise with the Dataset pairing, and the sampling and loss      *)
(* entry points of GaussianDiffusionWithDeepImagePrior.                    *)
(*                                                                         *)
(* Every object of the program has a program counter; the value "none"     *)
(* means that the object does not exist in the run under study.  Each      *)
(* specification below starts one group of objects and leaves the others   *)
(* at "none".                                                              *)
(***************************************************************************)
EXTENDS Integers, Sequences, FiniteSets, TLC

(***************************************************************************)
(* Bounds of the model.                                                    *)
(***************************************************************************)
\* Trainer.__init__ is tried with num_samples in 0..MaxNumSamples.
MaxNumSamples == 25
\* gradient_accumulate_every ranges over 1..MaxAccum.
MaxAccum == 2
\* save_and_sample_every ranges over 1..MaxEvery.
MaxEvery == 3
\* train_num_steps (both trainers) ranges over 0..MaxSteps.
MaxSteps == 4
\* FID scores range over 1..MaxFid.
MaxFid == 2
\* Method calls on a trainer are counted up to CallCap.
CallCap == 2
\* DIPTrainer objects constructed on one network, one after the other.
MaxTrainers == 2
\* A fixed input tensor (get_noise) is one of 1..MaxInputs.
MaxInputs == 2
\* A dataset folder holds up to MaxImages files.
MaxImages == 3
\* generate_noise is called up to MaxRuns times on one folder.
MaxRuns == 2
\* Prior network instances 1..MaxNets exist; each takes up to MaxUpdates updates.
MaxNets == 2
MaxUpdates == 2
\* Up to MaxSampleCalls sampling calls are made.
MaxSampleCalls == 2

(***************************************************************************)
(* IEEE-754 binary64 arithmetic, as far as math.sqrt(num) ** 2 needs it.   *)
(* Naturals of up to 112 bits are sequences of Limbs limbs, least          *)
(* significant first, in base Base.                                        *)
(***************************************************************************)
LimbBits == 14
Base == 2^LimbBits
Limbs == 8
\* the number of bits of a binary64 significand
Precision == 53

Pow2(k) == 2^k

RECURSIVE Carry(_, _)
\* Propagates carries through a sequence of limb sums; c is the carry in.
Carry(s, c) ==
    IF s = <<>> THEN <<>>
    ELSE <<(Head(s) + c) % Base>> \o Carry(Tail(s), (Head(s) + c) \div Base)

BigZero == [i \in 1..Limbs |-> 0]

\* The natural v * 2^sh, for v < 2^17 and v * 2^sh < Base^Limbs.
BigShl(v, sh) ==
    LET p == sh \div LimbBits
        w == v * Pow2(sh % LimbBits)
    IN  Carry([i \in 1..Limbs |-> IF i = p + 1 THEN w ELSE 0], 0)

BigAdd(a, b) == Carry([i \in 1..Limbs |-> a[i] + b[i]], 0)

\* Coefficient k of a * b: the sum of a[i] * b[k + 1 - i] over the four low limbs.
Conv(a, b, k) ==
    LET Term(i) == IF k + 1 - i \in 1..4 THEN a[i] * b[k + 1 - i] ELSE 0
    IN  Term(1) + Term(2) + Term(3) + Term(4)

\* a * b for a, b < Base^4.
BigMul(a, b) == Carry([k \in 1..Limbs |-> Conv(a, b, k)], 0)

RECURSIVE BigCmpFrom(_, _, _)
BigCmpFrom(a, b, i) ==
    IF i = 0 THEN 0
    ELSE IF a[i] < b[i] THEN -1
    ELSE IF a[i] > b[i] THEN 1
    ELSE BigCmpFrom(a, b, i - 1)

\* -1, 0 or 1 as a < b, a = b, a > b.
BigCmp(a, b) == BigCmpFrom(a, b, Limbs)
BigLeq(a, b) == BigCmp(a, b) <= 0

RECURSIVE FloorLog2(_)
FloorLog2(n) == IF n <= 1 THEN 0 ELSE 1 + FloorLog2(n \div 2)

RECURSIVE ISqrtBits(_, _, _)
\* The largest r' >= r, r' - r < 2^(bit + 1), with r' * r' <= big.
ISqrtBits(big, r, bit) ==
    IF bit < 0 THEN r
    ELSE LET c == BigAdd(r, BigShl(1, bit))
             next == IF BigLeq(BigMul(c, c), big) THEN c ELSE r
         IN  \* the test computes next before the recursion descends
             IF next[1] >= 0 THEN ISqrtBits(big, next, bit - 1) ELSE r

\* The binary exponent e of math.sqrt(num): 2^e <= sqrt(num) < 2^(e + 1).
SqrtExponent(num) == FloorLog2(num) \div 2

\* num scaled so that its square root has exactly Precision bits before the point.
Scaled(num) == BigShl(num, 2 * (Precision - 1) - 2 * SqrtExponent(num))

\* math.sqrt(num) for 1 <= num < 2^17: the significand (Precision bits) of the
\* correctly rounded square root (round to nearest; a tie cannot occur).
SqrtSignificand(num) ==
    LET big == Scaled(num)
        r == ISqrtBits(big, BigZero, Precision - 1)
    IN  IF BigLeq(big, BigAdd(BigMul(r, r), r)) THEN r ELSE BigAdd(r, BigShl(1, 0))

\* x ** 2 == num in binary64, x the float with significand m: the exact square
\* m * m rounds (to nearest, ties to even) to the float num.
SquareRoundsTo(m, num) ==
    LET sq == BigMul(m, m)
        big == Scaled(num)
        \* sq has 2 * Precision - 1 or 2 * Precision bits
        d == IF BigLeq(BigShl(1, 2 * Precision - 1), sq) THEN Precision ELSE Precision - 1
        half == BigShl(1, d - 1)
    IN  /\ BigLeq(sq, BigAdd(big, half))
        /\ BigLeq(big, BigAdd(sq, half))

\* (math.sqrt(num) ** 2) == num, in binary64 as Python computes it.
has_int_squareroot(num) ==
    IF num = 0 THEN TRUE ELSE SquareRoundsTo(SqrtSignificand(num), num)

\* The values of num_samples that has_int_squareroot accepts, computed once.
AcceptedNumSamples == {num \in 0..MaxNumSamples : has_int_squareroot(num)}


(***************************************************************************)
(* The other helper functions.                                             *)
(***************************************************************************)
\* divisible_by with its arguments swapped
divisible_by_swapped(numer, denom) == (denom % numer) = 0

divisible_by(numer, denom) == (numer % denom) = 0

RECURSIVE Repeat(_, _)
\* [v] * n
Repeat(v, n) == IF n <= 0 THEN <<>> ELSE <<v>> \o Repeat(v, n - 1)

num_to_groups(num, divisor) ==
    LET groups == num \div divisor
        remainder == num % divisor
        arr == Repeat(divisor, groups)
    IN  IF remainder > 0 THEN Append(arr, remainder) ELSE arr

RECURSIVE SumSeq(_)
SumSeq(s) == IF s = <<>> THEN 0 ELSE Head(s) + SumSeq(Tail(s))

\* f with f[name] set to data, name added to its domain when new
Write(f, name, data) == (name :> data) @@ f

(***************************************************************************)
(* State.                                                                  *)
(***************************************************************************)
VARIABLES
    \* Trainer
    t_pc,        \* "none", "new", "failed", "idle", or the place train() is at
    trainer,     \* the Trainer's attributes
    ckpts,       \* results_folder: checkpoint file name -> its data
    samples,     \* results_folder: the sample grid files
    loc,         \* the local variables of train()
    init_args,   \* the arguments of the last Trainer(...) call
    init_error,  \* the assertion that call failed, "" when none did
    t_outcome,   \* the last call, if it was train(): "running", "returned", "raised"; else "none"
    t_calls,     \* method calls made on the trainer since construction, up to 2
    fired,       \* the steps at which the current train() call began its periodic block
    \* DIPTrainer
    d_pc,        \* "none", "idle", or the place train() is at
    dip_trainer, \* the DIPTrainer's attributes
    d_files,     \* result_folder: checkpoint file name -> its data
    d_images,    \* result_folder: the image files of save_image
    d_loc,       \* the arguments of the last train() call, until another method is called
    d_obs,       \* what that call has done: the step it began at, the cycles it ran
    d_made,      \* DIPTrainer objects constructed
    \* generate_noise and Dataset
    g_pc,        \* "none", "idle", or "glob" inside generate_noise
    folder,      \* datasets_folder: the image files in it
    noises,      \* noises_folder: artifact file name -> the artifact
    g_loc,       \* generate_noise's position: the extension it is at, the paths left of its glob
    g_net,       \* the parameters of dip_model: the optimizer updates in them
    g_count,     \* artifact file name -> the times generate_noise computed it
    g_runs,      \* generate_noise calls that have returned
    pair,        \* what the last Dataset.__getitem__ returned
    \* GaussianDiffusionWithDeepImagePrior
    s_pc,        \* "none" or "idle"
    diffusion,   \* the diffusion object's attributes
    nets,        \* prior network instance -> the optimizer updates in its parameters
    s_grads,     \* the instances with a gradient pending from loss.backward()
    s_log,       \* the sampling calls made: the instance each ran, and its updates
    \* both trainers
    saved        \* checkpoint file name -> the trainer's state at the last save() a caller
                 \* made, whether train() has written the file since (intact), and whether
                 \* a training step has been taken since (trained)

g_vars == <<g_pc, folder, noises, g_loc, g_net, g_count, g_runs, pair>>
s_vars == <<s_pc, diffusion, nets, s_grads, s_log>>
t_vars == <<t_pc, trainer, ckpts, samples, loc, init_args, init_error, t_outcome, t_calls, fired>>
d_vars == <<d_pc, dip_trainer, d_files, d_images, d_loc, d_obs, d_made>>
vars == <<t_vars, d_vars, saved, g_vars, s_vars>>

(***************************************************************************)
(* Trainer.__init__                                                        *)
(***************************************************************************)
\* the defaults of Trainer.__init__
DefaultBatchSize == 16
DefaultNumSamples == 25
\* max_grad_norm = 1.
DefaultMaxGradNorm == 1
\* max_grad_norm = None: no max norm is configured
NoMaxGradNorm == 0
\* its thresholds
MinEffectiveBatch == 16
MinImages == 100
\* best_fid = 1e10; every score is below it
BestFidInit == 2^30

BatchSizes == {DefaultBatchSize \div 2, DefaultBatchSize}
DatasetSizes == {MinImages - 1, MinImages}
\* fid_scorer.fid_score() returns one of these
FidScores == 1..MaxFid
MaxGradNorms == {NoMaxGradNorm, DefaultMaxGradNorm}

Args == [num_samples : 0..MaxNumSamples, train_batch_size : BatchSizes,
         gradient_accumulate_every : 1..MaxAccum, save_and_sample_every : 1..MaxEvery,
         train_num_steps : 0..MaxSteps, calculate_fid : BOOLEAN,
         save_best_and_latest_only : BOOLEAN, len_ds : DatasetSizes,
         max_grad_norm : MaxGradNorms]

NoArgs == [num_samples |-> 0, train_batch_size |-> 0, gradient_accumulate_every |-> 0,
           save_and_sample_every |-> 0, train_num_steps |-> 0, calculate_fid |-> FALSE,
           save_best_and_latest_only |-> FALSE, len_ds |-> 0,
           max_grad_norm |-> NoMaxGradNorm]

\* The attributes __init__ assigns in every construction.
BaseAttrs == {"device", "model", "channels", "num_samples", "save_and_sample_every",
              "batch_size", "gradient_accumulate_every", "train_num_steps", "image_size",
              "max_grad_norm", "ds", "dl", "opt", "results_folder", "step",
              "calculate_fid", "save_best_and_latest_only"}

\* The first assertion of __init__ that fails for the arguments a, "" when none does.
AssertionOf(a) ==
    IF a.num_samples \notin AcceptedNumSamples
    THEN "number of samples must have an integer square root"
    ELSE IF ~(a.train_batch_size * a.gradient_accumulate_every >= MinEffectiveBatch)
    THEN "your effective batch size should be at least 16 or above"
    ELSE IF ~(a.len_ds >= MinImages)
    THEN "you should have at least 100 images in your folder"
    ELSE IF a.save_best_and_latest_only /\ ~a.calculate_fid
    THEN "calculate_fid must be True"
    ELSE ""

\* The object a successful __init__ leaves.
NewTrainer(a) ==
    [num_samples |-> a.num_samples,
     save_and_sample_every |-> a.save_and_sample_every,
     batch_size |-> a.train_batch_size,
     gradient_accumulate_every |-> a.gradient_accumulate_every,
     train_num_steps |-> a.train_num_steps,
     len_ds |-> a.len_ds,
     max_grad_norm |-> a.max_grad_norm,
     model |-> 0,      \* the parameters: the number of optimizer updates in them
     opt |-> 0,        \* the optimizer state: the number of steps Adam has taken
     grads |-> 0,      \* backward passes accumulated in the gradients
     step |-> 0,
     calculate_fid |-> a.calculate_fid,
     best_fid |-> BestFidInit,
     save_best_and_latest_only |-> a.save_best_and_latest_only,
     attrs |-> BaseAttrs
               \cup (IF a.calculate_fid THEN {"fid_scorer"} ELSE {})
               \cup (IF a.save_best_and_latest_only THEN {"best_fid"} ELSE {})]

NoTrainer == [NewTrainer(NoArgs) EXCEPT !.attrs = {}]

hasattr(obj, name) == name \in obj.attrs

NoLocals == [i |-> 0, ops |-> <<>>, milestone |-> 0, batches |-> <<>>, generated |-> 0]

Trainer__init__(a) ==
    /\ t_pc = "new"
    /\ init_args' = a
    /\ init_error' = AssertionOf(a)
    /\ IF init_error' = ""
       THEN t_pc' = "idle" /\ trainer' = NewTrainer(a)
       ELSE t_pc' = "failed" /\ trainer' = NoTrainer
    /\ UNCHANGED <<ckpts, samples, loc, t_outcome, t_calls, fired, d_vars, g_vars, s_vars, saved>>

(***************************************************************************)
(* Trainer.save, Trainer.load                                              *)
(***************************************************************************)
\* str(milestone) for the milestone numbers train() computes
MilestoneName(m) == ToString(m)

Trainer_file(milestone) == "model-" \o milestone \o ".pt"
Sample_file(milestone) == "sample-" \o milestone \o ".png"

\* the dictionary save() serialises
Trainer_data(tr) == [step |-> tr.step, model |-> tr.model, opt |-> tr.opt]

\* load() without its last line, self.opt.load_state_dict
Trainer_restore_without_opt(tr, data) ==
    [tr EXCEPT !.model = data.model, !.step = data.step]

\* the trainer after load() has read data
Trainer_restore(tr, data) ==
    [tr EXCEPT !.model = data.model, !.step = data.step, !.opt = data.opt]

\* the milestones a caller passes to save() and load()
CallerMilestones == {MilestoneName(1)}

Bump(n) == IF n < CallCap THEN n + 1 ELSE n

\* a caller's save(): the saved state is remembered, intact until train() writes the file
Remember(sv, name, step, model, extra) ==
    Write(sv, name, [step |-> step, model |-> model, extra |-> extra, intact |-> TRUE,
                     trained |-> FALSE])

\* a training step has been taken since the saves sv
Trained(sv) == [n \in DOMAIN sv |-> [sv[n] EXCEPT !.trained = TRUE]]

\* train() has written the files names
Clobber(sv, names) ==
    [n \in DOMAIN sv |-> IF n \in names THEN [sv[n] EXCEPT !.intact = FALSE] ELSE sv[n]]

Trainer_save(milestone) ==
    /\ t_pc = "idle"
    /\ ckpts' = Write(ckpts, Trainer_file(milestone), Trainer_data(trainer))
    /\ saved' = Remember(saved, Trainer_file(milestone), trainer.step, trainer.model, trainer.opt)
    /\ t_calls' = Bump(t_calls)
    /\ t_outcome' = "none"
    /\ UNCHANGED <<t_pc, trainer, samples, loc, init_args, init_error, fired, d_vars, g_vars, s_vars>>

Trainer_load(milestone) ==
    /\ t_pc = "idle"
    /\ Trainer_file(milestone) \in DOMAIN ckpts
    /\ trainer' = Trainer_restore(trainer, ckpts[Trainer_file(milestone)])
    /\ t_calls' = Bump(t_calls)
    /\ t_outcome' = "none"
    /\ UNCHANGED <<t_pc, ckpts, samples, loc, init_args, init_error, fired, d_vars, g_vars, s_vars, saved>>

(***************************************************************************)
(* Trainer.train                                                           *)
(***************************************************************************)
\* while self.step < self.train_num_steps
train_continues(tr) == tr.step < tr.train_num_steps

\* if self.step != 0 and divisible_by(self.step, self.save_and_sample_every)
periodic_due(tr) == tr.step # 0 /\ divisible_by(tr.step, tr.save_and_sample_every)

Trainer_train ==
    /\ t_pc = "idle"
    /\ t_pc' = "while"
    /\ loc' = NoLocals
    /\ t_outcome' = "running"
    /\ t_calls' = Bump(t_calls)
    /\ fired' = <<>>
    /\ UNCHANGED <<trainer, ckpts, samples, init_args, init_error, d_vars, g_vars, s_vars, saved>>

\* The loop test: another outer iteration, or the return of train().
Train_while ==
    /\ t_pc = "while"
    /\ IF train_continues(trainer)
       THEN /\ t_pc' = "accumulate"
            /\ loc' = [loc EXCEPT !.i = 0, !.ops = <<>>]
            /\ UNCHANGED t_outcome
       ELSE /\ t_pc' = "idle"
            /\ t_outcome' = "returned"
            /\ UNCHANGED loc
    /\ UNCHANGED <<trainer, ckpts, samples, init_args, init_error, t_calls, fired, d_vars, g_vars, s_vars, saved>>

\* One pass of the inner loop: a batch is pulled, its loss divided by
\* gradient_accumulate_every, and loss.backward() adds to the gradients.
Train_backward ==
    /\ t_pc = "accumulate"
    /\ loc.i < trainer.gradient_accumulate_every
    /\ trainer' = [trainer EXCEPT !.grads = @ + 1]
    /\ loc' = [loc EXCEPT !.i = @ + 1, !.ops = Append(@, "backward")]
    /\ UNCHANGED <<t_pc, ckpts, samples, init_args, init_error, t_outcome, t_calls, fired,
                   d_vars, g_vars, s_vars, saved>>

\* After the inner loop: opt.step(), opt.zero_grad(), step += 1, and the test
\* that opens the periodic block (model.eval(), milestone, batches).
Train_step ==
    /\ t_pc = "accumulate"
    /\ loc.i = trainer.gradient_accumulate_every
    /\ trainer' = [trainer EXCEPT !.model = @ + 1, !.opt = @ + 1, !.grads = 0, !.step = @ + 1]
    /\ IF periodic_due(trainer')
       THEN /\ t_pc' = "sample"
            /\ loc' = [loc EXCEPT !.ops = @ \o <<"opt.step", "opt.zero_grad", "step += 1">>,
                                  !.milestone = trainer'.step \div trainer'.save_and_sample_every,
                                  !.batches = num_to_groups(trainer'.num_samples, trainer'.batch_size)]
            /\ fired' = Append(fired, trainer'.step)
       ELSE /\ t_pc' = "while"
            /\ loc' = [loc EXCEPT !.ops = @ \o <<"opt.step", "opt.zero_grad", "step += 1">>]
            /\ UNCHANGED fired
    /\ saved' = Trained(saved)
    /\ UNCHANGED <<ckpts, samples, init_args, init_error, t_outcome, t_calls, d_vars, g_vars, s_vars>>

\* The checkpoints after the block's save calls, given the FID score.
periodic_ckpts(tr, files, milestone, fid_score) ==
    IF tr.save_best_and_latest_only
    THEN LET tr1 == IF tr.best_fid > fid_score THEN [tr EXCEPT !.best_fid = fid_score] ELSE tr
             f1 == IF tr.best_fid > fid_score
                   THEN Write(files, Trainer_file("best"), Trainer_data(tr1)) ELSE files
         IN  Write(f1, Trainer_file("latest"), Trainer_data(tr1))
    ELSE Write(files, Trainer_file(MilestoneName(milestone)), Trainer_data(tr))

\* The files the block always writes (best is written only on an improvement).
periodic_files(tr, milestone) ==
    IF tr.save_best_and_latest_only THEN {Trainer_file("latest")}
    ELSE {Trainer_file(MilestoneName(milestone))}

\* The rest of the periodic block, from self.ema.ema_model.sample on.  The
\* attribute lookup self.ema raises AttributeError when __init__ assigned no
\* such attribute, and the exception leaves train().
Train_sample ==
    /\ t_pc = "sample"
    /\ IF loc.batches # <<>> /\ ~hasattr(trainer, "ema")
       THEN /\ t_pc' = "idle"
            /\ t_outcome' = "raised"
            /\ UNCHANGED <<trainer, ckpts, samples, loc, saved>>
       ELSE IF loc.batches = <<>>
       THEN \* torch.cat of an empty list raises
            /\ t_pc' = "idle"
            /\ t_outcome' = "raised"
            /\ UNCHANGED <<trainer, ckpts, samples, loc, saved>>
       ELSE \E fid_score \in FidScores :
            /\ t_pc' = "while"
            /\ samples' = samples \cup {Sample_file(MilestoneName(loc.milestone))}
            /\ loc' = [loc EXCEPT !.generated = SumSeq(loc.batches)]
            /\ trainer' = IF trainer.save_best_and_latest_only /\ trainer.best_fid > fid_score
                          THEN [trainer EXCEPT !.best_fid = fid_score] ELSE trainer
            /\ ckpts' = periodic_ckpts(trainer, ckpts, loc.milestone, fid_score)
            /\ saved' = Clobber(saved, {n \in DOMAIN ckpts' : n \notin DOMAIN ckpts \/ ckpts'[n] # ckpts[n]}
                                       \cup periodic_files(trainer, loc.milestone))
            /\ UNCHANGED t_outcome
    /\ UNCHANGED <<init_args, init_error, t_calls, fired, d_vars, g_vars, s_vars>>

(***************************************************************************)
(* DIPTrainer                                                              *)
(***************************************************************************)
\* the defaults of DIPTrainer.train
DefaultPredictEvery == 10000

Inputs == 1..MaxInputs
\* the values of save_every tried: train() then writes milestone 1 only
DIPSaveEvery == {n \in (MaxSteps - 1)..MaxSteps : n >= 1}

\* The object __init__ leaves: model is the network module it was given (its
\* parameters as they are), model_input a newly drawn tensor.  The Adam state
\* self.opt is left out: save() does not write it and nothing reads it back.
NewDIPTrainer(model, model_input) ==
    [model |-> model,              \* the parameters: the optimizer updates in them
     model_input |-> model_input,
     step |-> 0]

NoDIPTrainer == NewDIPTrainer(0, 0)
NoDIPLocals == [train_num_steps |-> 0, predict_every |-> 0, save_every |-> 0]
NoDIPObs == [start |-> 0, cycles |-> 0, returned |-> FALSE]

DIP_file(milestone) == "dip_model_" \o milestone \o ".pth"
DIP_image(step) == "dip_" \o ToString(step) \o ".png"

DIP_data(dt) == [step |-> dt.step, model |-> dt.model, model_input |-> dt.model_input]

DIP_restore(dt, data) ==
    [dt EXCEPT !.step = data.step, !.model = data.model, !.model_input = data.model_input]

\* the loop test with <= for <
dip_continues_inclusive(dt, train_num_steps) == dt.step <= train_num_steps

\* while self.step < train_num_steps
dip_continues(dt, train_num_steps) == dt.step < train_num_steps

\* A further DIPTrainer on the same network module, as generate_noise makes them.
DIPTrainer__init__(model_input) ==
    /\ d_pc = "idle"
    /\ d_made < MaxTrainers
    /\ d_made' = d_made + 1
    /\ dip_trainer' = NewDIPTrainer(dip_trainer.model, model_input)
    /\ d_loc' = NoDIPLocals
    /\ d_obs' = NoDIPObs
    /\ UNCHANGED <<d_pc, d_files, d_images, t_vars, g_vars, s_vars, saved>>

DIP_save(milestone) ==
    /\ d_pc = "idle"
    /\ d_files' = Write(d_files, DIP_file(milestone), DIP_data(dip_trainer))
    /\ saved' = Remember(saved, DIP_file(milestone), dip_trainer.step, dip_trainer.model,
                         dip_trainer.model_input)
    /\ d_loc' = NoDIPLocals
    /\ d_obs' = NoDIPObs
    /\ UNCHANGED <<d_pc, dip_trainer, d_images, d_made, t_vars, g_vars, s_vars>>

DIP_load(milestone) ==
    /\ d_pc = "idle"
    /\ DIP_file(milestone) \in DOMAIN d_files
    /\ dip_trainer' = DIP_restore(dip_trainer, d_files[DIP_file(milestone)])
    /\ d_loc' = NoDIPLocals
    /\ d_obs' = NoDIPObs
    /\ UNCHANGED <<d_pc, d_files, d_images, d_made, t_vars, g_vars, s_vars, saved>>

DIP_train(train_num_steps, predict_every, save_every) ==
    /\ d_pc = "idle"
    /\ d_pc' = "while"
    /\ d_loc' = [train_num_steps |-> train_num_steps, predict_every |-> predict_every,
                 save_every |-> save_every]
    /\ d_obs' = [start |-> dip_trainer.step, cycles |-> 0, returned |-> FALSE]
    /\ UNCHANGED <<dip_trainer, d_files, d_images, d_made, t_vars, g_vars, s_vars, saved>>

\* One pass of the loop body: zero_grad, forward, mse_loss, backward, opt.step,
\* step += 1, then save_image and save(milestone) when their periods divide step.
DIP_cycle ==
    /\ d_pc = "while"
    /\ dip_continues(dip_trainer, d_loc.train_num_steps)
    /\ dip_trainer' = [dip_trainer EXCEPT !.model = @ + 1, !.step = @ + 1]
    /\ d_obs' = [d_obs EXCEPT !.cycles = @ + 1]
    /\ d_images' = IF dip_trainer'.step % d_loc.predict_every = 0
                   THEN d_images \cup {DIP_image(dip_trainer'.step)} ELSE d_images
    /\ LET name == DIP_file(MilestoneName(dip_trainer'.step \div d_loc.save_every))
       IN  IF dip_trainer'.step % d_loc.save_every = 0
           THEN /\ d_files' = Write(d_files, name, DIP_data(dip_trainer'))
                /\ saved' = Clobber(Trained(saved), {name})
           ELSE d_files' = d_files /\ saved' = Trained(saved)
    /\ UNCHANGED <<d_pc, d_loc, d_made, t_vars, g_vars, s_vars>>

DIP_return ==
    /\ d_pc = "while"
    /\ ~dip_continues(dip_trainer, d_loc.train_num_steps)
    /\ d_pc' = "idle"
    /\ d_obs' = [d_obs EXCEPT !.returned = TRUE]
    /\ UNCHANGED <<dip_trainer, d_files, d_images, d_loc, d_made, t_vars, g_vars, s_vars, saved>>

(***************************************************************************)
(* generate_noise and Dataset                                              *)
(***************************************************************************)
\* exts = ['jpg', 'jpeg', 'png', 'tiff'], of generate_noise and of Dataset
Exts == <<"jpg", "jpeg", "png", "tiff">>
\* train_num_steps = 100 of generate_noise
DefaultNoiseSteps == 100

\* The image files a folder may hold: a directory below the folder ("" the
\* folder itself), a stem and an extension.
Files == [dir : {"", "sub"}, stem : {"cat", "dog"}, ext : {"jpg", "png", "gif"}]

\* Path(folder).glob('**/*.ext')
Glob(dir_files, ext) == {f \in dir_files : f.ext = ext}

\* f'{img_path.stem}.pth'
Noise_file(img) == img.stem \o ".pth"

\* dip_trainer.train(train_num_steps): the trainer when train() returns
RECURSIVE DIP_run(_, _)
DIP_run(dt, train_num_steps) ==
    IF dip_continues(dt, train_num_steps)
    THEN DIP_run([dt EXCEPT !.model = @ + 1, !.step = @ + 1], train_num_steps)
    ELSE dt

NoNoiseLocals == [ext |-> 0, todo |-> {}, train_num_steps |-> 0]
NoFile == [dir |-> "", stem |-> "", ext |-> ""]
NoArtifact == [img |-> NoFile, start |-> 0, model |-> 0]
\* nothing was asked of the Dataset yet
NoPair == [result |-> "none", img |-> NoFile, noise |-> NoArtifact]

generate_noise(train_num_steps) ==
    /\ g_pc = "idle"
    /\ g_runs < MaxRuns
    /\ g_pc' = "glob"
    /\ g_loc' = [ext |-> 1, todo |-> Glob(folder, Exts[1]), train_num_steps |-> train_num_steps]
    /\ UNCHANGED <<folder, noises, g_net, g_count, g_runs, pair, t_vars, d_vars, s_vars, saved>>

\* The body of the inner loop for the path the glob yields next (in the order
\* of the directory walk, which the program does not fix): nothing when the
\* artifact file exists, else a DIPTrainer on dip_model is trained on the image
\* and save_noise writes the artifact.
Noise_image(img) ==
    /\ g_pc = "glob"
    /\ img \in g_loc.todo
    /\ g_loc' = [g_loc EXCEPT !.todo = @ \ {img}]
    /\ IF Noise_file(img) \in DOMAIN noises
       THEN UNCHANGED <<noises, g_net, g_count>>
       ELSE LET dt == DIP_run(NewDIPTrainer(g_net, 0), g_loc.train_num_steps)
            IN  /\ noises' = Write(noises, Noise_file(img),
                                   [img |-> img, start |-> g_net, model |-> dt.model])
                /\ g_net' = dt.model
                /\ g_count' = Write(g_count, Noise_file(img),
                                    IF Noise_file(img) \in DOMAIN g_count
                                    THEN g_count[Noise_file(img)] + 1 ELSE 1)
    /\ UNCHANGED <<g_pc, folder, g_runs, pair, t_vars, d_vars, s_vars, saved>>

\* The glob of one extension is exhausted: the next extension, or the return.
Noise_next_ext ==
    /\ g_pc = "glob"
    /\ g_loc.todo = {}
    /\ IF g_loc.ext < Len(Exts)
       THEN /\ g_loc' = [g_loc EXCEPT !.ext = @ + 1, !.todo = Glob(folder, Exts[g_loc.ext + 1])]
            /\ UNCHANGED <<g_pc, g_runs>>
       ELSE /\ g_pc' = "idle"
            /\ g_runs' = g_runs + 1
            /\ g_loc' = NoNoiseLocals
    /\ UNCHANGED <<folder, noises, g_net, g_count, pair, t_vars, d_vars, s_vars, saved>>

\* self.paths of Dataset
Dataset_paths(dir_files) == UNION {Glob(dir_files, Exts[k]) : k \in 1..Len(Exts)}

\* Dataset.__getitem__ for the path img: the image and the artifact under its
\* stem; torch.load raises when there is no such file.
Dataset_getitem(img) ==
    /\ g_pc = "idle"
    /\ g_runs > 0
    /\ img \in Dataset_paths(folder)
    /\ pair' = IF Noise_file(img) \in DOMAIN noises
               THEN [result |-> "pair", img |-> img, noise |-> noises[Noise_file(img)]]
               ELSE [result |-> "FileNotFoundError", img |-> img, noise |-> NoArtifact]
    /\ UNCHANGED <<g_pc, folder, noises, g_loc, g_net, g_count, g_runs, t_vars, d_vars, s_vars, saved>>

(***************************************************************************)
(* GaussianDiffusionWithDeepImagePrior                                     *)
(***************************************************************************)
\* a sampling call that runs another instance than self.dip_model
sampling_network_other(diff) == IF diff.dip_model = 1 THEN MaxNets ELSE 1

\* the network instance a sampling call runs on its input: self.dip_model
sampling_network(diff) == diff.dip_model

\* sample(): p_sample_loop or ddim_sample builds x_T from the prior network's
\* output, under torch.inference_mode, and runs the reverse process.
Diffusion_sample ==
    /\ s_pc = "idle"
    /\ Len(s_log) < MaxSampleCalls
    /\ s_log' = Append(s_log,
                       [fn |-> IF diffusion.is_ddim_sampling THEN "ddim_sample" ELSE "p_sample_loop",
                        net |-> sampling_network(diffusion),
                        updates |-> nets[sampling_network(diffusion)]])
    /\ UNCHANGED <<s_pc, diffusion, nets, s_grads, t_vars, d_vars, g_vars, saved>>

\* forward() -> p_losses(), then loss.backward() as Trainer.train calls them:
\* dip_loss is part of the loss, so self.dip_model gets a gradient.
Diffusion_backward ==
    /\ s_pc = "idle"
    /\ s_grads' = s_grads \cup {diffusion.dip_model}
    /\ UNCHANGED <<s_pc, diffusion, nets, s_log, t_vars, d_vars, g_vars, saved>>

\* opt.step(); opt.zero_grad() of Trainer.train: Adam over
\* diffusion_model.parameters(), the prior network's among them.
Diffusion_opt_step ==
    /\ s_pc = "idle"
    /\ s_grads # {}
    /\ \A n \in s_grads : nets[n] < MaxUpdates
    /\ nets' = [n \in DOMAIN nets |-> IF n \in s_grads THEN nets[n] + 1 ELSE nets[n]]
    /\ s_grads' = {}
    /\ UNCHANGED <<s_pc, diffusion, s_log, t_vars, d_vars, g_vars, saved>>

\* One cycle of a DIPTrainer constructed on the instance n (generate_noise
\* makes such trainers on the dip_model it is given).
Prior_cycle(n) ==
    /\ s_pc = "idle"
    /\ nets[n] < MaxUpdates
    /\ nets' = [nets EXCEPT ![n] = @ + 1]
    /\ UNCHANGED <<s_pc, diffusion, s_grads, s_log, t_vars, d_vars, g_vars, saved>>

(***************************************************************************)
(* Specifications.                                                         *)
(***************************************************************************)
NoTrainerYet ==
    /\ trainer = NoTrainer /\ ckpts = <<>> /\ samples = {} /\ loc = NoLocals
    /\ init_args = NoArgs /\ init_error = "" /\ t_outcome = "none" /\ t_calls = 0
    /\ fired = <<>>

NoDIPTrainerYet ==
    /\ d_pc = "none" /\ dip_trainer = NoDIPTrainer /\ d_files = <<>> /\ d_images = {}
    /\ d_loc = NoDIPLocals /\ d_obs = NoDIPObs /\ d_made = 0

NoNoiseYet ==
    /\ g_pc = "none" /\ folder = {} /\ noises = <<>> /\ g_loc = NoNoiseLocals
    /\ g_net = 0 /\ g_count = <<>> /\ g_runs = 0 /\ pair = NoPair

NoDiffusion == [dip_model |-> 0, is_ddim_sampling |-> FALSE]

NoDiffusionYet ==
    /\ s_pc = "none" /\ diffusion = NoDiffusion /\ nets = <<>> /\ s_grads = {}
    /\ s_log = <<>>

NoOthers == NoNoiseYet /\ NoDiffusionYet

\* Trainer(...) is about to be called.
InitNew == t_pc = "new" /\ NoTrainerYet /\ NoDIPTrainerYet /\ saved = <<>> /\ NoOthers

NextInit == t_pc = "new" /\ \E a \in Args : Trainer__init__(a)

SpecInit == InitNew /\ [][NextInit]_vars

\* A Trainer as __init__ leaves it, for arguments that pass its assertions
\* (num_samples and train_batch_size at their defaults).
InitTrainer ==
    /\ \E a \in Args :
          /\ a.num_samples = DefaultNumSamples
          /\ a.train_batch_size = DefaultBatchSize
          /\ AssertionOf(a) = ""
          /\ init_args = a
          /\ trainer = NewTrainer(a)
    /\ t_pc = "idle" /\ init_error = ""
    /\ ckpts = <<>> /\ samples = {} /\ loc = NoLocals
    /\ t_outcome = "none" /\ t_calls = 0 /\ fired = <<>>
    /\ NoDIPTrainerYet /\ saved = <<>> /\ NoOthers

NextTrainer ==
    \/ Trainer_train
    \/ Train_while
    \/ Train_backward
    \/ Train_step
    \/ Train_sample
    \/ \E m \in CallerMilestones : Trainer_save(m)
    \/ \E m \in CallerMilestones : Trainer_load(m)

Spec == InitTrainer /\ [][NextTrainer]_vars

\* A DIPTrainer as __init__ leaves it, on a network that has had no update.
InitDIP ==
    /\ t_pc = "none" /\ NoTrainerYet /\ saved = <<>> /\ NoOthers
    /\ d_pc = "idle"
    /\ \E model_input \in Inputs : dip_trainer = NewDIPTrainer(0, model_input)
    /\ d_files = <<>> /\ d_images = {} /\ d_loc = NoDIPLocals /\ d_obs = NoDIPObs
    /\ d_made = 1

NextDIP ==
    \/ \E model_input \in Inputs : DIPTrainer__init__(model_input)
    \/ \E n \in 0..MaxSteps, every \in DIPSaveEvery : DIP_train(n, DefaultPredictEvery, every)
    \/ DIP_cycle
    \/ DIP_return
    \/ \E m \in CallerMilestones : DIP_save(m)
    \/ \E m \in CallerMilestones : DIP_load(m)

SpecDIP == InitDIP /\ [][NextDIP]_vars

\* Either trainer, with its checkpoints.
SpecCkpt == (InitTrainer \/ InitDIP) /\ [][NextTrainer \/ NextDIP]_vars

\* A dataset folder of up to MaxImages files, an empty noises folder, and a
\* dip_model that has had no update.
InitNoise ==
    /\ t_pc = "none" /\ NoTrainerYet /\ NoDIPTrainerYet /\ saved = <<>> /\ NoDiffusionYet
    /\ g_pc = "idle"
    /\ folder \in {fs \in SUBSET Files : Cardinality(fs) <= MaxImages}
    /\ noises = <<>> /\ g_loc = NoNoiseLocals /\ g_net = 0 /\ g_count = <<>>
    /\ g_runs = 0 /\ pair = NoPair

NextNoise ==
    \/ generate_noise(DefaultNoiseSteps)
    \/ \E img \in Files : Noise_image(img)
    \/ Noise_next_ext
    \/ \E img \in Files : Dataset_getitem(img)

SpecNoise == InitNoise /\ [][NextNoise]_vars

\* A diffusion object as __init__ leaves it: dip_model is the instance it was
\* given, one of the MaxNets instances the caller has made.
InitSample ==
    /\ t_pc = "none" /\ NoTrainerYet /\ NoDIPTrainerYet /\ saved = <<>> /\ NoNoiseYet
    /\ s_pc = "idle"
    /\ \E n \in 1..MaxNets, ddim \in BOOLEAN :
          diffusion = [dip_model |-> n, is_ddim_sampling |-> ddim]
    /\ nets = [n \in 1..MaxNets |-> 0]
    /\ s_grads = {} /\ s_log = <<>>

NextSample ==
    \/ Diffusion_sample
    \/ Diffusion_backward
    \/ Diffusion_opt_step
    \/ \E n \in 1..MaxNets : Prior_cycle(n)

SpecSample == InitSample /\ [][NextSample]_vars

(***************************************************************************)
(* The claims.                                                             *)
(***************************************************************************)
Last(q) == q[Len(q)]
Max(a, b) == IF a >= b THEN a ELSE b

\* train() has been called once, as the first call on the trainer, and has ended
FirstTrainEnded == t_pc = "idle" /\ t_calls = 1 /\ t_outcome \in {"returned", "raised"}

\* C1: a freshly constructed Trainer whose train() runs for save_and_sample_every
\* steps leaves exactly one sample grid (sample-1.png), exactly one checkpoint
\* (milestone 1), and a step counter equal to save_and_sample_every.
C1_OneSampleOneCheckpoint ==
    (/\ FirstTrainEnded
     /\ trainer.train_num_steps = trainer.save_and_sample_every
     /\ ~trainer.save_best_and_latest_only)
    => /\ samples = {Sample_file(MilestoneName(1))}
       /\ DOMAIN ckpts = {Trainer_file(MilestoneName(1))}
       /\ trainer.step = trainer.save_and_sample_every

IsNonzeroMultiple(s, every) == s # 0 /\ \E k \in 1..s : k * every = s

\* C2: within a train() call the periodic block is begun at step s exactly when s
\* is a nonzero multiple of save_and_sample_every, at most once for each s, and
\* its milestone is s / save_and_sample_every.
C2_PeriodicIffMultiple ==
    /\ \A k \in 1..Len(fired) : IsNonzeroMultiple(fired[k], trainer.save_and_sample_every)
    /\ \A j, k \in 1..Len(fired) : j # k => fired[j] # fired[k]
    /\ t_pc = "sample"
       => /\ Last(fired) = trainer.step
          /\ loc.milestone * trainer.save_and_sample_every = trainer.step
    \* an outer iteration of this call has ended outside the block
    /\ (t_pc = "while" /\ loc.ops # <<>>)
       => (IsNonzeroMultiple(trainer.step, trainer.save_and_sample_every)
           <=> \E k \in 1..Len(fired) : fired[k] = trainer.step)

\* the block is begun a second time on the trainer, at the second multiple
C2_Witness == t_pc = "sample" /\ loc.milestone = 2 /\ trainer.step > trainer.save_and_sample_every

\* C3: train() ends, and when it has ended the step counter equals train_num_steps.
C3_TrainEndsAtNumSteps ==
    (t_pc = "idle" /\ t_outcome \in {"returned", "raised"})
    => trainer.step = trainer.train_num_steps

\* C4: with save_best_and_latest_only, every periodic evaluation writes 'latest'
\* with the current state, 'best' exists from the first evaluation on (any score
\* is below the initial best_fid), and train() writes no numbered checkpoint.
C4_BestAndLatest ==
    (trainer.save_best_and_latest_only /\ fired # <<>> /\ t_pc # "sample")
    => /\ Trainer_file("latest") \in DOMAIN ckpts
       /\ ckpts[Trainer_file("latest")].step = Last(fired)
       /\ Trainer_file("best") \in DOMAIN ckpts
       /\ ckpts[Trainer_file("best")].step <= Last(fired)
       /\ \A s \in 1..Len(fired) :
             Trainer_file(MilestoneName(fired[s] \div trainer.save_and_sample_every))
                \notin DOMAIN ckpts \ DOMAIN saved

IsSquare(n) == \E r \in 0..n : r * r = n

\* C5: Trainer(...) fails exactly when num_samples is no perfect square, or the
\* effective batch size is below 16, or the dataset has fewer than 100 images,
\* or save_best_and_latest_only is asked for without calculate_fid.
C5_InitRejects ==
    t_pc \in {"idle", "failed"}
    => ((t_pc = "failed")
        <=> \/ ~IsSquare(init_args.num_samples)
            \/ init_args.train_batch_size * init_args.gradient_accumulate_every < 16
            \/ init_args.len_ds < 100
            \/ (init_args.save_best_and_latest_only /\ ~init_args.calculate_fid))

\* the groups sum to num, each is in 1..divisor, all but the last equal divisor
GroupsOf(num, divisor, arr) ==
    /\ SumSeq(arr) = num
    /\ \A k \in 1..Len(arr) : arr[k] >= 1 /\ arr[k] <= divisor
    /\ \A k \in 1..(Len(arr) - 1) : arr[k] = divisor

\* C6: num_to_groups(num, divisor) sums to num with every entry in 1..divisor and
\* every entry but the last equal to divisor (num_to_groups(17, 16) = [16, 1]),
\* and a periodic sampling generates exactly num_samples images.
C6_GroupsAndSampling ==
    /\ \A num \in 0..MaxNumSamples, divisor \in 1..(DefaultBatchSize + 1) :
          GroupsOf(num, divisor, num_to_groups(num, divisor))
    /\ num_to_groups(DefaultBatchSize + 1, DefaultBatchSize) = <<DefaultBatchSize, 1>>
    /\ (fired # <<>> /\ t_pc # "sample")
       => /\ GroupsOf(trainer.num_samples, trainer.batch_size, loc.batches)
          /\ loc.generated = trainer.num_samples

\* the trainer's state is the one remembered under the file name
TrainerMatches(name) ==
    /\ trainer.step = saved[name].step
    /\ trainer.model = saved[name].model
    /\ trainer.opt = saved[name].extra

DIPTrainerMatches(name) ==
    /\ dip_trainer.step = saved[name].step
    /\ dip_trainer.model = saved[name].model
    /\ dip_trainer.model_input = saved[name].extra

\* C7 as stated: load(m) restores the step counter, the parameters and the
\* optimizer state (Trainer) or the fixed input (DIPTrainer) to their values at
\* the caller's last save(m), whatever training came between.
C7_RoundTrip ==
    [][\A m \in CallerMilestones :
          /\ (Trainer_load(m) /\ Trainer_file(m) \in DOMAIN saved)
             => TrainerMatches(Trainer_file(m))'
          /\ (DIP_load(m) /\ DIP_file(m) \in DOMAIN saved)
             => DIPTrainerMatches(DIP_file(m))']_vars

\* C7 amended: the same, when train() has not itself written checkpoint m
\* between the save(m) and the load(m).
C7_RoundTripIntact ==
    [][\A m \in CallerMilestones :
          /\ (Trainer_load(m) /\ Trainer_file(m) \in DOMAIN saved /\ saved[Trainer_file(m)].intact)
             => TrainerMatches(Trainer_file(m))'
          /\ (DIP_load(m) /\ DIP_file(m) \in DOMAIN saved /\ saved[DIP_file(m)].intact)
             => DIPTrainerMatches(DIP_file(m))']_vars

\* a DIPTrainer is back, after training, at the state of an intact save: only
\* load() leads there, since training only raises the counter and __init__
\* keeps the trained parameters
C7_Witness ==
    \E name \in DOMAIN saved :
        /\ d_pc = "idle"
        /\ saved[name].trained /\ saved[name].intact
        /\ DIPTrainerMatches(name)

\* C10 as stated: train(train_num_steps) runs train_num_steps cycles.
C10_RunsGivenNumberOfSteps ==
    (d_pc = "idle" /\ d_obs.returned) => d_obs.cycles = d_loc.train_num_steps

\* C10 amended: train(train_num_steps) on a trainer whose counter is s runs
\* max(0, train_num_steps - s) cycles, one step of the counter each, and returns
\* with the counter at max(s, train_num_steps).
C10_RunsUpToTotal ==
    /\ d_pc = "while" => dip_trainer.step = d_obs.start + d_obs.cycles
    /\ (d_pc = "idle" /\ d_obs.returned)
       => /\ d_obs.cycles = Max(0, d_loc.train_num_steps - d_obs.start)
          /\ dip_trainer.step = Max(d_obs.start, d_loc.train_num_steps)

\* a call on a trainer that had already taken steps has run the remaining cycles
C10_Witness ==
    /\ d_pc = "idle" /\ d_obs.returned
    /\ d_obs.start > 0 /\ d_obs.cycles > 0
    /\ d_obs.cycles < d_loc.train_num_steps

SupportedExt(img) == \E k \in 1..Len(Exts) : Exts[k] = img.ext

\* C8: when generate_noise has returned, every image under the folder with a
\* supported extension has an artifact computed from that image, no artifact was
\* computed twice, and Dataset pairs an image with the artifact computed from it.
C8_ArtifactPerImage ==
    (g_pc = "idle" /\ g_runs > 0)
    => /\ \A img \in folder :
             SupportedExt(img)
             => /\ Noise_file(img) \in DOMAIN noises
                /\ noises[Noise_file(img)].img = img
       /\ \A name \in DOMAIN g_count : g_count[name] <= 1
       /\ pair.result # "none" => pair.result = "pair" /\ pair.noise.img = pair.img

ClippedIteration(tr) ==
    Repeat("backward", tr.gradient_accumulate_every)
    \o (IF tr.max_grad_norm # NoMaxGradNorm THEN <<"clip_grad_norm_">> ELSE <<>>)
    \o <<"opt.step", "opt.zero_grad", "step += 1">>

\* C11: every outer iteration of train() performs gradient_accumulate_every
\* backward passes, then a gradient clipping when a max norm is configured, then
\* one optimizer step, then the zeroing of the gradients, then step += 1.
C11_IterationOrder ==
    (t_pc \in {"while", "sample"} /\ loc.ops # <<>>)
    => /\ loc.ops = ClippedIteration(trainer)
       /\ trainer.grads = 0

\* C12: the network fitted to an image by generate_noise starts without any
\* update from an image processed earlier: every artifact was computed by a
\* training that began from parameters no image had updated.
C12_FitStartsUntrained ==
    \A name \in DOMAIN noises : noises[name].start = 0

====
